---- MODULE Spec2Model ----
(***************************************************************************)
(* Model of the two Streamlit scrapers of the repository:                  *)
(*   src/clemson_report_automation.py  (session table scraped_data)        *)
(*   src/streamlit_app.py              (one browser run, per-report loop)  *)
(***************************************************************************)
EXTENDS Integers, Sequences, FiniteSets, TLC

VARIABLES
    \* clemson_report_automation.py
    scraped_data,   \* st.session_state.scraped_data: the rows of the frame
    report_links,   \* the id parameter of each report link of the results page
    all_data,       \* records returned during the current run
    temp_df,        \* the run's working copy of scraped_data
    i,              \* position of the for loop over report_links
    pcA,            \* "idle" between script runs, "loop" inside Start Scraping
    \* scrape_report_with_selenium taken alone
    rec_in,         \* a report page and the id of its URL
    rec_out,        \* what the function returned for it
    \* streamlit_app.py
    pcB,            \* position in the Start Scraping handler
    session,        \* the browser session: "none", "open" or "quit"
    quits,          \* driver.quit() calls of the run
    exit_kind,      \* how the run ended
    windows,        \* driver.window_handles
    focus,          \* the window the driver is switched to
    results,        \* the results page the run loaded
    data,           \* the output rows
    lab_numbers,    \* the lab number of each output row
    idx,            \* position of the per-report loop (from 1)
    page_html,      \* the report page source last read
    reads,          \* the pages read in the current iteration
    opened,         \* the lab numbers whose link the iteration opened
    refreshes,      \* driver.refresh() calls of the current iteration
    parsed,         \* per output row, the page its Crop and Lime came from
    failed          \* the rows whose iteration logged a warning

varsA == <<scraped_data, report_links, all_data, temp_df, i, pcA>>
varsR == <<rec_in, rec_out>>
varsB == <<pcB, session, quits, exit_kind, windows, focus, results, data,
           lab_numbers, idx, page_html, reads, opened, refreshes, parsed, failed>>

(***************************************************************************)
(* Python values.  A cell of a table is a string, an int or None; the      *)
(* three are kept apart by a tag so that "None" (a string) and None differ. *)
(***************************************************************************)
PyStr(s) == [t |-> "str", s |-> s, n |-> 0]
PyInt(n) == [t |-> "int", s |-> "", n |-> n]
PyNone == [t |-> "none", s |-> "", n |-> 0]

Range(f) == {f[x] : x \in DOMAIN f}

(***************************************************************************)
(*                 PART 1: clemson_report_automation.py                    *)
(***************************************************************************)

\* The (label substring, output column) pairs of get_analysis_data, in the
\* order of its if / elif chain.
AnalysisKeys ==
    << <<"Soil pH", "Soil pH">>,
       <<"Buffer pH", "Buffer pH">>,
       <<"Phosphorus (P)", "P (lbs/A)">>,
       <<"Potassium (K)", "K (lbs/A)">>,
       <<"Calcium (Ca)", "Ca (lbs/A)">>,
       <<"Magnesium (Mg)", "Mg (lbs/A)">>,
       <<"Zinc (Zn)", "Zn (lbs/A)">>,
       <<"Manganese (Mn)", "Mn (lbs/A)">>,
       <<"Copper (Cu)", "Cu (lbs/A)">>,
       <<"Boron (B)", "B (lbs/A)">>,
       <<"Sodium (Na)", "Na (lbs/A)">>,
       <<"Sulfur (S)", "S (lbs/A)">>,
       <<"Soluble Salts", "EC (mmhos/cm)">>,
       <<"Nitrate Nitrogen", "NO3-N (ppm)">>,
       <<"Organic Matter", "OM (%)">> >>

\* all_columns of scrape_report_with_selenium (the same list as display_columns).
all_columns ==
    << "LabNum", "Soil pH", "Buffer pH", "P (lbs/A)", "K (lbs/A)", "Ca (lbs/A)",
       "Mg (lbs/A)", "Zn (lbs/A)", "Mn (lbs/A)", "Cu (lbs/A)", "B (lbs/A)",
       "Na (lbs/A)", "S (lbs/A)", "EC (mmhos/cm)", "NO3-N (ppm)", "OM (%)",
       "Bulk Density (lbs/A)", "Crop Type", "Lime (lbs/1,000 ft2 or /A)" >>

\* The lime column's name (the source writes ft with a superscript 2).
LimeCol == "Lime (lbs/1,000 ft2 or /A)"

\* A table row of the analysis table: th is the set of label substrings the
\* header text contains (NoTh: the row has no <th>), td is the stripped text
\* of the <td> that follows it (NoTd: there is none).
NoTh == {"<no th>"}
NoTd == "<no td>"

\* The column the if / elif chain selects for a header text: the first key,
\* in chain order, that the label contains; "" when no branch matches.
RECURSIVE ChainColumn(_, _)
ChainColumn(label, k) ==
    IF k > Len(AnalysisKeys) THEN ""
    ELSE IF AnalysisKeys[k][1] \in label THEN AnalysisKeys[k][2]
    ELSE ChainColumn(label, k + 1)

\* get_analysis_data: the loop over the rows of the table's tbody; a later
\* row with the same column overwrites an earlier one.
RECURSIVE AnalysisRows(_, _, _)
AnalysisRows(rows, k, acc) ==
    IF k > Len(rows) THEN acc
    ELSE LET row == rows[k]
             col == IF row.th = NoTh \/ row.td = NoTd THEN ""
                    ELSE ChainColumn(row.th, 1)
         IN  AnalysisRows(rows, k + 1,
                 IF col = "" THEN acc
                 ELSE [c \in (DOMAIN acc) \cup {col} |->
                          IF c = col THEN PyStr(row.td) ELSE acc[c]])

EmptyDict == [c \in {} |-> PyNone]

\* get_analysis_data(table): {} for a missing table; a table without tbody
\* raises inside the try and the except returns the (still empty) dict.
get_analysis_data(table) ==
    IF ~table.present THEN EmptyDict
    ELSE IF ~table.tbody THEN EmptyDict
    ELSE AnalysisRows(table.rows, 1, EmptyDict)

\* The id query parameter of a report URL, as parse_qs(...).get('id',
\* [None])[0] returns it: a string (here a tuple of characters) or None.
NoId == << "<None>" >>

Digits == <<"0", "1", "2", "3", "4", "5", "6", "7", "8", "9">>

IsDigit(c) == \E d \in 1..10 : Digits[d] = c

DigitValue(c) == (CHOOSE d \in 1..10 : Digits[d] = c) - 1

\* int(lab_num) raises ValueError unless the text is a decimal numeral.
IsNumeral(txt) == Len(txt) > 0 /\ \A k \in 1..Len(txt) : IsDigit(txt[k])

RECURSIVE IntOf(_)
IntOf(txt) ==
    IF Len(txt) = 0 THEN 0
    ELSE 10 * IntOf(SubSeq(txt, 1, Len(txt) - 1)) + DigitValue(txt[Len(txt)])

\* 'LabNum' in existing_df.columns and int(lab_num) in
\* existing_df['LabNum'].values.  A frame has columns once it has rows.
LabNumIn(n, df) ==
    Len(df) > 0 /\ \E k \in 1..Len(df) : df[k]["LabNum"] = PyInt(n)

\* crop_type and lime_recommendation from the Recommendations table: the
\* first and second <td> of the second <tr> of its tbody.
CropTypeOf(recs) ==
    IF recs.present /\ Len(recs.rows) > 1 /\ Len(recs.rows[2]) > 0
    THEN recs.rows[2][1] ELSE "None"

LimeRecOf(recs) ==
    IF recs.present /\ Len(recs.rows) > 1 /\ Len(recs.rows[2]) > 1
    THEN recs.rows[2][2] ELSE "N/A"

\* report_data after lines 88-102.
ReportData(page, id) ==
    LET a == get_analysis_data(page.analysis)
        set == [c \in {"LabNum", "Crop Type", LimeCol, "Bulk Density (lbs/A)"} |->
                  CASE c = "LabNum" -> IF id = NoId THEN PyNone ELSE PyInt(IntOf(id))
                    [] c = "Crop Type" -> PyStr(CropTypeOf(page.recs))
                    [] c = LimeCol -> PyStr(LimeRecOf(page.recs))
                    [] OTHER -> PyStr("N/A")]
    IN  set @@ a

\* Faulty variant of RecordOf: report_data returned as it is, without the
\* fill of the missing columns.
RecordOfPartial(d) == d

\* The returned dict: {col: report_data.get(col, 'N/A') for col in all_columns}.
RecordOf(d) ==
    [c \in Range(all_columns) |-> IF c \in DOMAIN d THEN d[c] ELSE PyStr("N/A")]

NoRecord == [kind |-> "none", rec |-> EmptyDict]

\* scrape_report_with_selenium(driver, url, existing_df).  page.load is
\* FALSE when driver.get raises; every exception ends in "return None".
scrape_report_with_selenium(page, id, existing_df) ==
    IF ~page.load THEN [NoRecord EXCEPT !.kind = "error"]
    ELSE IF id # NoId /\ Len(existing_df) > 0 /\ ~IsNumeral(id)
         THEN [NoRecord EXCEPT !.kind = "error"]
    ELSE IF id # NoId /\ LabNumIn(IntOf(id), existing_df)
         THEN [NoRecord EXCEPT !.kind = "skip"]
    ELSE IF id # NoId /\ ~IsNumeral(id)
         THEN [NoRecord EXCEPT !.kind = "error"]
    ELSE IF page.recs.present /\ ~page.recs.tbody
         THEN [NoRecord EXCEPT !.kind = "error"]
    ELSE [kind |-> "record", rec |-> RecordOf(ReportData(page, id))]

(***************************************************************************)
(* Report pages and results pages the driver may return.                   *)
(***************************************************************************)
MaxLinks == 3

NoTable == [present |-> FALSE, tbody |-> FALSE, rows |-> <<>>]

\* An analysis table with one row per label of keys, in chain order.
RowsFor(keys, v) ==
    LET all == [k \in 1..Len(AnalysisKeys) |-> [th |-> {AnalysisKeys[k][1]}, td |-> v]]
    IN  SelectSeq(all, LAMBDA r : r.th \subseteq keys)

TableFor(keys, v) == [present |-> TRUE, tbody |-> TRUE, rows |-> RowsFor(keys, v)]

AllLabels == {AnalysisKeys[k][1] : k \in 1..Len(AnalysisKeys)}

RecTables ==
    { NoTable,
      [present |-> TRUE, tbody |-> FALSE, rows |-> <<>>],
      [present |-> TRUE, tbody |-> TRUE, rows |-> << <<"Crop", "Lime">> >>],
      [present |-> TRUE, tbody |-> TRUE, rows |-> << <<"Crop", "Lime">>, <<>> >>],
      [present |-> TRUE, tbody |-> TRUE, rows |-> << <<"Crop", "Lime">>, <<"Centipede">> >>],
      [present |-> TRUE, tbody |-> TRUE,
       rows |-> << <<"Crop", "Lime">>, <<"Centipede", "25">> >>] }

\* Analysis tables beyond the one-row-per-label form: no tbody, a header
\* without a value cell, a value row without header, a header matching two
\* branches of the chain, an unknown header, a label printed twice.
OddTables ==
    { [present |-> TRUE, tbody |-> FALSE, rows |-> <<>>],
      [present |-> TRUE, tbody |-> TRUE,
       rows |-> << [th |-> {"Soil pH"}, td |-> NoTd], [th |-> NoTh, td |-> "7"] >>],
      [present |-> TRUE, tbody |-> TRUE,
       rows |-> << [th |-> {"Soil pH", "Buffer pH"}, td |-> "6.0"],
                   [th |-> {"Comments"}, td |-> "x"] >>],
      [present |-> TRUE, tbody |-> TRUE,
       rows |-> << [th |-> {"Zinc (Zn)"}, td |-> "1"], [th |-> {"Zinc (Zn)"}, td |-> ""] >>] }

IdsA == { NoId, <<"1">>, <<"0", "1">>, <<"2">>, <<"x">> }

\* Pages of the table runs: a page that fails to load, a full report and a
\* sparse one (a later visit of the same report may show either).
PageError == [load |-> FALSE, analysis |-> NoTable, recs |-> NoTable]

PagesA ==
    { PageError,
      [load |-> TRUE, analysis |-> TableFor({"Soil pH", "Buffer pH"}, "6.1"),
       recs |-> [present |-> TRUE, tbody |-> TRUE,
                 rows |-> << <<"Crop", "Lime">>, <<"Centipede", "25">> >>]],
      [load |-> TRUE, analysis |-> TableFor({"Soil pH"}, "5.5"), recs |-> NoTable] }

\* Pages of the function taken alone: every combination of present and
\* absent analysis rows with and without a recommendations table, and the
\* odd, empty, full and missing tables with every recommendations table.
FullRecs ==
    [present |-> TRUE, tbody |-> TRUE,
     rows |-> << <<"Crop", "Lime">>, <<"Centipede", "25">> >>]

PagesR ==
    [load : {TRUE},
     analysis : {TableFor(keys, "6.1") : keys \in SUBSET AllLabels},
     recs : {NoTable, FullRecs}]
    \cup
    [load : {TRUE},
     analysis : OddTables \cup {NoTable, TableFor({}, ""), TableFor(AllLabels, "6.1"),
                                TableFor({"Soil pH", "Buffer pH"}, "6.1")},
     recs : RecTables]

IdsR == { NoId, <<"4", "2">> }

LinkSeqs == UNION {[1..n -> IdsA] : n \in 0..MaxLinks}

(***************************************************************************)
(* The frame operations of the Start Scraping handler.                     *)
(***************************************************************************)
\* Faulty variant of DropDuplicates: nothing is dropped.
DropDuplicatesNone(df) == df

\* drop_duplicates(subset=['LabNum']): keep the first row of each LabNum;
\* missing values count as equal to each other.
DropDuplicates(df) ==
    LET keep == {k \in 1..Len(df) : \A j \in 1..(k - 1) : df[j]["LabNum"] # df[k]["LabNum"]}
        F[k \in 0..Len(df)] ==
            IF k = 0 THEN <<>>
            ELSE IF k \in keep THEN Append(F[k - 1], df[k]) ELSE F[k - 1]
    IN  F[Len(df)]

\* sort_values(by='LabNum'): ascending, missing values last.
LabNumBefore(a, b) ==
    IF a["LabNum"].t = "none" THEN FALSE
    ELSE IF b["LabNum"].t = "none" THEN TRUE
    ELSE a["LabNum"].n < b["LabNum"].n

RECURSIVE SortValues(_)
SortValues(df) ==
    IF Len(df) = 0 THEN <<>>
    ELSE LET least == {k \in 1..Len(df) : \A j \in 1..Len(df) : ~LabNumBefore(df[j], df[k])}
             m == CHOOSE k \in least : \A j \in least : k <= j
             rest == [j \in 1..(Len(df) - 1) |-> IF j < m THEN df[j] ELSE df[j + 1]]
         IN  <<df[m]>> \o SortValues(rest)

(***************************************************************************)
(* clemson_report_automation.py as a state machine.                        *)
(***************************************************************************)
\* "Start Scraping" up to the for loop: the results page is fetched and its
\* report links collected.  loaded = FALSE: driver.get raised (the outer
\* except reports it); no links: the error message, nothing else.
StartScraping ==
    /\ pcA = "idle"
    /\ \E loaded \in BOOLEAN, links \in LinkSeqs :
          IF loaded /\ Len(links) > 0
          THEN /\ report_links' = links
               /\ all_data' = <<>>
               /\ temp_df' = scraped_data
               /\ i' = 1
               /\ pcA' = "loop"
               /\ UNCHANGED scraped_data
          ELSE UNCHANGED varsA
    /\ UNCHANGED <<varsR, varsB>>

\* One iteration of the for loop: the report is fetched and scraped against
\* temp_df; a record is appended to all_data and to temp_df.
ScrapeReport ==
    /\ pcA = "loop"
    /\ i <= Len(report_links)
    /\ \E page \in PagesA :
          LET report_data == scrape_report_with_selenium(page, report_links[i], temp_df)
          IN  IF report_data.kind = "record"
              THEN /\ all_data' = Append(all_data, report_data.rec)
                   /\ temp_df' = Append(temp_df, report_data.rec)
              ELSE UNCHANGED <<all_data, temp_df>>
    /\ i' = i + 1
    /\ UNCHANGED <<scraped_data, report_links, pcA>>
    /\ UNCHANGED <<varsR, varsB>>

\* After the loop: the new records are concatenated to the stored frame,
\* de-duplicated on LabNum, sorted by LabNum and re-indexed.  The run's
\* locals go out of scope; all_data is kept as the record of the last run.
FinishScraping ==
    /\ pcA = "loop"
    /\ i > Len(report_links)
    /\ scraped_data' = IF Len(all_data) > 0
                       THEN SortValues(DropDuplicates(scraped_data \o all_data))
                       ELSE scraped_data
    /\ pcA' = "idle"
    /\ report_links' = <<>>
    /\ temp_df' = <<>>
    /\ i' = 0
    /\ UNCHANGED all_data
    /\ UNCHANGED <<varsR, varsB>>

\* "Clear All Data": the button is rendered only for a non-empty frame.
ClearAllData ==
    /\ pcA = "idle"
    /\ Len(scraped_data) > 0
    /\ scraped_data' = <<>>
    /\ UNCHANGED <<report_links, all_data, temp_df, i, pcA>>
    /\ UNCHANGED <<varsR, varsB>>

NextA == StartScraping \/ ScrapeReport \/ FinishScraping \/ ClearAllData

\* scrape_report_with_selenium applied to one page against an empty frame.
ChooseReport ==
    /\ rec_out.kind = "pending"
    /\ rec_in.page = PageError
    /\ \E page \in PagesR, id \in IdsR : rec_in' = [page |-> page, id |-> id]
    /\ UNCHANGED rec_out
    /\ UNCHANGED <<varsA, varsB>>

ScrapeOne ==
    /\ rec_out.kind = "pending"
    /\ rec_in.page # PageError
    /\ rec_out' = scrape_report_with_selenium(rec_in.page, rec_in.id, <<>>)
    /\ UNCHANGED rec_in
    /\ UNCHANGED <<varsA, varsB>>

NextR == ChooseReport \/ ScrapeOne

vars == <<varsA, varsR, varsB>>


(***************************************************************************)
(* Properties of clemson_report_automation.py.                             *)
(***************************************************************************)
LabNumOf(row) == row["LabNum"]

\* C1: scraped_data never holds two rows with the same LabNum, whatever
\* sequence of Start Scraping runs and Clear All Data clicks produced it.
C1_OneRowPerLabNum ==
    \A j, k \in 1..Len(scraped_data) :
        j # k => LabNumOf(scraped_data[j]) # LabNumOf(scraped_data[k])

\* A run has ended in which two returned records carried the same LabNum
\* and the stored frame holds rows.
C1_Witness ==
    /\ pcA = "idle"
    /\ Len(scraped_data) >= 2
    /\ \E j, k \in 1..Len(all_data) :
          j # k /\ LabNumOf(all_data[j]) = LabNumOf(all_data[k])

\* The LabNum a report link stands for: the integer of its id parameter,
\* None when the URL has no id; a non-numeric id stands for none.
HasLabNum(id) == id = NoId \/ IsNumeral(id)

LinkLabNum(id) == IF id = NoId THEN PyNone ELSE PyInt(IntOf(id))

Present(labnum, df) == \E k \in 1..Len(df) : LabNumOf(df[k]) = labnum

RowsKept ==
    \A k \in 1..Len(scraped_data) :
        \E j \in 1..Len(scraped_data') : scraped_data'[j] = scraped_data[k]

\* C6: no step of a Start Scraping run changes or removes a stored row,
\* and a report whose LabNum is already in the frame (stored, or scraped
\* earlier in the run) is skipped and yields no record.
C6_RunKeepsRowsAndSkips ==
    [][ /\ (pcA = "loop" \/ pcA' = "loop") => RowsKept
        /\ ( /\ pcA = "loop"
             /\ i <= Len(report_links)
             /\ HasLabNum(report_links[i])
             /\ Present(LinkLabNum(report_links[i]), temp_df) )
           => all_data' = all_data ]_vars

\* C9: the rows a run adds to scraped_data are as many as the records
\* scrape_report_with_selenium returned during the run.
C9_RowsAddedEqualRecords ==
    [][ (pcA = "loop" /\ pcA' = "idle")
        => Len(scraped_data') = Len(scraped_data) + Len(all_data) ]_vars

(***************************************************************************)
(* Properties of scrape_report_with_selenium.                              *)
(***************************************************************************)
\* Whether the report page shows a value for a column: an analysis row
\* whose header contains the column's label and which has a value cell; a
\* first / second cell in the second recommendations row; an id in the URL.
FoundOnPage(in, col) ==
    CASE col = "LabNum" -> in.id # NoId
      [] col = "Crop Type" ->
            in.page.recs.present /\ Len(in.page.recs.rows) > 1
                /\ Len(in.page.recs.rows[2]) > 0
      [] col = LimeCol ->
            in.page.recs.present /\ Len(in.page.recs.rows) > 1
                /\ Len(in.page.recs.rows[2]) > 1
      [] col = "Bulk Density (lbs/A)" -> FALSE
      [] OTHER ->
            /\ in.page.analysis.present
            /\ in.page.analysis.tbody
            /\ \E k \in 1..Len(in.page.analysis.rows), a \in 1..Len(AnalysisKeys) :
                  /\ AnalysisKeys[a][2] = col
                  /\ in.page.analysis.rows[k].th # NoTh
                  /\ AnalysisKeys[a][1] \in in.page.analysis.rows[k].th
                  /\ in.page.analysis.rows[k].td # NoTd

NumColumns == 19

\* C4 (as stated): a returned record has exactly the 19 fixed columns and
\* every column whose value was not found on the page holds 'N/A'.
C4_NotFoundIsNA ==
    rec_out.kind = "record" =>
        /\ DOMAIN rec_out.rec = Range(all_columns)
        /\ Cardinality(DOMAIN rec_out.rec) = NumColumns
        /\ \A col \in Range(all_columns) :
              ~FoundOnPage(rec_in, col) => rec_out.rec[col] = PyStr("N/A")

\* C4 (amended): a returned record has exactly the 19 fixed columns; a
\* column not found on the page holds 'N/A', except that Crop Type holds
\* the string 'None' and LabNum holds None.
C4_NotFoundDefaults ==
    rec_out.kind = "record" =>
        /\ DOMAIN rec_out.rec = Range(all_columns)
        /\ Cardinality(DOMAIN rec_out.rec) = NumColumns
        /\ \A col \in Range(all_columns) :
              ~FoundOnPage(rec_in, col) =>
                  rec_out.rec[col] = CASE col = "LabNum" -> PyNone
                                       [] col = "Crop Type" -> PyStr("None")
                                       [] OTHER -> PyStr("N/A")

\* A record for a URL without id, a page without recommendations table and
\* an analysis table with some labels present and some absent.
C4_Witness ==
    /\ rec_out.kind = "record"
    /\ rec_in.id = NoId
    /\ ~rec_in.page.recs.present
    /\ FoundOnPage(rec_in, "Soil pH")
    /\ ~FoundOnPage(rec_in, "OM (%)")
    /\ rec_out.rec["Soil pH"] = PyStr("6.1")

(***************************************************************************)
(*                      PART 2: streamlit_app.py                           *)
(***************************************************************************)

\* Page text is a tuple of characters.
Chars_PageTimeout == <<"P", "a", "g", "e", " ", "T", "i", "m", "e", "o", "u", "t">>
Chars_Refresh == <<"R", "E", "F", "R", "E", "S", "H", " ", "y", "o", "u", "r", " ", "R", "e", "s", "u", "l", "t", "s", " ", "p", "a", "g", "e">>
Chars_CoolSeason == <<"C", "o", "o", "l", "-", "S", "e", "a", "s", "o", "n">>
Chars_WarmSeason == <<"W", "a", "r", "m", "-", "S", "e", "a", "s", "o", "n">>
Chars_Centipede == <<"C", "e", "n", "t", "i", "p", "e", "d", "e">>
Chars_Unit == <<"l", "b", "/", "1", "0", "0", "0">>
Chars_None == <<"N", "o", "n", "e">>

\* needle in text
Contains(text, needle) ==
    \E p \in 1..(Len(text) - Len(needle) + 1) :
        SubSeq(text, p, p + Len(needle) - 1) = needle

IsSpace(c) == c = " "

\* The end of the longest run of digits (of blanks) that starts at position
\* p; p - 1 when there is none.
RECURSIVE DigitRunEnd(_, _)
DigitRunEnd(text, p) ==
    IF p <= Len(text) /\ IsDigit(text[p]) THEN DigitRunEnd(text, p + 1) ELSE p - 1

RECURSIVE SpaceRunEnd(_, _)
SpaceRunEnd(text, p) ==
    IF p <= Len(text) /\ IsSpace(text[p]) THEN SpaceRunEnd(text, p + 1) ELSE p - 1

\* re.search(r"([0-9]+(?:\.[0-9]+)?)\s*lb/1000", text) tried at position p:
\* the captured group, or <<>> when the pattern does not match there.  The
\* digit runs and the blank run are greedy; a shorter run is followed by a
\* character of the same class, which nothing after it in the pattern
\* accepts, and giving up the optional fraction leaves the "." in front of
\* \s*lb, so backtracking never yields a match the greedy attempt misses.
MatchAt(text, p) ==
    LET e1 == DigitRunEnd(text, p)
        f  == IF e1 >= p /\ e1 + 1 <= Len(text) /\ text[e1 + 1] = "."
              THEN DigitRunEnd(text, e1 + 2) ELSE e1
        e2 == IF f >= e1 + 2 THEN f ELSE e1
        w  == SpaceRunEnd(text, e2 + 1)
    IN  IF e1 >= p /\ w + Len(Chars_Unit) <= Len(text)
              /\ SubSeq(text, w + 1, w + Len(Chars_Unit)) = Chars_Unit
        THEN SubSeq(text, p, e2) ELSE <<>>

\* lime_value (lines 135-140): group 1 of the leftmost match, else "None"
\* (the elif for "no lime" assigns the same "None").  The text searched is
\* the page's text content; markup is not modelled, so it is the page source.
LimeValue(text) ==
    LET starts == {p \in 1..Len(text) : MatchAt(text, p) # <<>>}
    IN  IF starts = {} THEN Chars_None
        ELSE MatchAt(text, CHOOSE q \in starts : \A r \in starts : q <= r)

\* crop_type (lines 127-133).
CropType(text) ==
    IF Contains(text, Chars_CoolSeason) THEN "Cool-Season"
    ELSE IF Contains(text, Chars_WarmSeason) THEN "Warm-Season"
    ELSE IF Contains(text, Chars_Centipede) THEN "Centipede"
    ELSE "N/A"

\* The timeout test of line 112.
IsTimeoutPage(page_text) ==
    Contains(page_text, Chars_PageTimeout) \/ Contains(page_text, Chars_Refresh)

(***************************************************************************)
(* Pages the lab's site may return to streamlit_app.py.                    *)
(***************************************************************************)
MaxSamples == 2

NoAmount == << "<none>" >>

Chars_UnitPlural == <<"l", "b", "s", "/", "1", "0", "0", "0">>
Chars_NoLime == <<"n", "o", " ", "l", "i", "m", "e">>

\* A report page: its text, and the lime amount it prints (NoAmount when it
\* prints none).  The text names the crop, then an optional fertilizer rate,
\* then the lime amount with its unit, or "no lime".
ReportPage(crop, fert, lime, unit) ==
    [text |-> crop \o <<" ">>
              \o (IF fert = NoAmount THEN <<>> ELSE fert \o <<" ">> \o Chars_Unit \o <<" ">>)
              \o (IF lime = NoAmount THEN Chars_NoLime ELSE lime \o <<" ">> \o unit),
     lime |-> lime]

TimeoutPages ==
    { [text |-> Chars_PageTimeout, lime |-> NoAmount],
      [text |-> Chars_Refresh, lime |-> NoAmount] }

ReportPages ==
    { ReportPage(Chars_WarmSeason, NoAmount, <<"2", "5">>, Chars_Unit),
      ReportPage(Chars_CoolSeason, NoAmount, <<"2", "5", ".", "0">>, Chars_Unit),
      ReportPage(Chars_Centipede, NoAmount, NoAmount, Chars_Unit),
      ReportPage(Chars_WarmSeason, NoAmount, <<"1", ",", "2", "5", "0">>, Chars_Unit),
      ReportPage(Chars_Centipede, <<"5">>, <<"4", "0">>, Chars_Unit),
      ReportPage(<<>>, NoAmount, <<"3", "0">>, Chars_UnitPlural) }
    \cup TimeoutPages

NoPage == [text |-> <<>>, lime |-> NoAmount]

\* The listing columns the handler looks up, in the order of lines 58-63.
ExpectedHeaders ==
    <<"Name", "Date Sampled", "Sample No", "LabNum", "Soil pH", "Buffer pH">>

OtherHeaders ==
    <<"LabNum", "Crop", "Buffer pH", "Soil pH", "Name", "Sample No", "Date Sampled">>

\* The k-th sample of the listing: the text of its cell under each header.
SampleCell(k, h) ==
    CASE h = "LabNum" -> <<"2", "5", Digits[k + 1]>>
      [] h = "Name" -> IF k = 1 THEN <<"a">> ELSE <<"b">>
      [] h = "Soil pH" -> <<"5", ".", Digits[k + 1]>>
      [] h = "Buffer pH" -> <<"7", ".", Digits[k + 1]>>
      [] h = "Sample No" -> <<"F", Digits[k + 1]>>
      [] h = "Date Sampled" -> <<"5", "/", Digits[k + 1]>>
      [] OTHER -> <<>>

SampleRow(headers, k) == [c \in 1..Len(headers) |-> SampleCell(k, headers[c])]

\* A results page: whether its source contains "LabNum", whether it has a
\* <table>, the table's <th> texts and, per <tr> after the first, the texts
\* of its <td> cells (<<>>: a row without cells).
ResultsPage(headers, rows) ==
    [labnum_text |-> TRUE, has_table |-> TRUE, headers |-> headers, rows |-> rows]

ResultsPages ==
    { [labnum_text |-> FALSE, has_table |-> FALSE, headers |-> <<>>, rows |-> <<>>],
      [labnum_text |-> TRUE, has_table |-> FALSE, headers |-> <<>>, rows |-> <<>>],
      ResultsPage(<<"Name", "LabNum", "Soil pH">>, << << <<"a">>, <<"1">>, <<"5">> >> >>),
      ResultsPage(ExpectedHeaders, << SampleRow(ExpectedHeaders, 1), << <<"x">> >> >>) }
    \cup { ResultsPage(ExpectedHeaders,
                       [r \in 1..(2 * n) |-> IF r % 2 = 0 THEN <<>>
                                             ELSE SampleRow(ExpectedHeaders, (r + 1) \div 2)])
             : n \in 0..MaxSamples }
    \cup { ResultsPage(OtherHeaders,
                       [r \in 1..n |-> SampleRow(OtherHeaders, n + 1 - r)])
             : n \in 1..MaxSamples }

\* headers.index(h); 0 stands for ValueError.
IndexOf(headers, h) ==
    IF \E c \in 1..Len(headers) : headers[c] = h
    THEN CHOOSE c \in 1..Len(headers) :
             headers[c] = h /\ \A d \in 1..(c - 1) : headers[d] # h
    ELSE 0

\* The data rows of the table: the rows that have cells.
DataRows(page) == SelectSeq(page.rows, LAMBDA r : Len(r) > 0)

\* IndexError: a data row with fewer cells than a looked-up column index.
RowTooShort(page) ==
    \E r \in 1..Len(page.rows), c \in 1..Len(ExpectedHeaders) :
        Len(page.rows[r]) > 0 /\ Len(page.rows[r]) < IndexOf(page.headers, ExpectedHeaders[c])

\* The output row initialised at lines 85-94.
OutputRow(page, cells) ==
    [Account |-> cells[IndexOf(page.headers, "Name")],
     SampleNo |-> cells[IndexOf(page.headers, "Sample No")],
     Lab |-> cells[IndexOf(page.headers, "LabNum")],
     Date |-> cells[IndexOf(page.headers, "Date Sampled")],
     SoilpH |-> cells[IndexOf(page.headers, "Soil pH")],
     BufferpH |-> cells[IndexOf(page.headers, "Buffer pH")],
     Crop |-> "",
     Lime |-> <<>>]

(***************************************************************************)
(* streamlit_app.py as a state machine: one action per browser operation   *)
(* of the handler, in program order.                                       *)
(***************************************************************************)
\* The button click: a new script run.  webdriver.Chrome(...) either
\* creates a session with one window or raises before the try block.
StartScrapingB ==
    /\ pcB \in {"idle", "ended"}
    /\ \E created \in BOOLEAN :
          /\ session' = IF created THEN "open" ELSE "none"
          /\ windows' = IF created THEN {"main"} ELSE {}
          /\ focus' = IF created THEN "main" ELSE "closed"
          /\ pcB' = IF created THEN "get_results" ELSE "ended"
          /\ exit_kind' = IF created THEN "" ELSE "no_session"
    /\ quits' = 0
    /\ results' = [labnum_text |-> FALSE, has_table |-> FALSE, headers |-> <<>>, rows |-> <<>>]
    /\ data' = <<>>
    /\ lab_numbers' = <<>>
    /\ idx' = 0
    /\ page_html' = NoPage
    /\ reads' = <<>>
    /\ opened' = <<>>
    /\ refreshes' = 0
    /\ parsed' = <<>>
    /\ failed' = {}
    /\ UNCHANGED <<varsA, varsR>>

\* driver.get(results_url) and the wait for "LabNum": either may raise, and
\* the wait raises TimeoutException when the text never shows.
LoadResults ==
    /\ pcB = "get_results"
    /\ \E page \in ResultsPages, raised \in BOOLEAN :
          IF raised \/ ~page.labnum_text
          THEN pcB' = "outer_except" /\ UNCHANGED results
          ELSE pcB' = "parse_results" /\ results' = page
    /\ UNCHANGED <<session, quits, exit_kind, windows, focus, data, lab_numbers,
                   idx, page_html, reads, opened, refreshes, parsed, failed>>
    /\ UNCHANGED <<varsA, varsR>>

\* Faulty variant of QuitAndStop: st.stop() without driver.quit().
StopWithoutQuit(kind) ==
    /\ exit_kind' = kind
    /\ pcB' = "ended"
    /\ UNCHANGED <<session, quits>>

\* driver.quit() followed by st.stop(): st.stop() raises a script-control
\* exception that is not an Exception, so the outer except does not run.
QuitAndStop(kind) ==
    /\ session' = "quit"
    /\ quits' = quits + 1
    /\ exit_kind' = kind
    /\ pcB' = "ended"

\* data and lab_numbers after the row loop of lines 69-94.
ListingRows(page) ==
    LET rows == DataRows(page)
    IN  [r \in 1..Len(rows) |-> OutputRow(page, rows[r])]

\* Lines 50-96: the table and header checks with their early exits, then
\* the output rows.
ParseResults ==
    /\ pcB = "parse_results"
    /\ IF ~results.has_table
       THEN QuitAndStop("no_table") /\ UNCHANGED <<data, lab_numbers, idx, parsed>>
       ELSE IF \E c \in 1..Len(ExpectedHeaders) : IndexOf(results.headers, ExpectedHeaders[c]) = 0
       THEN QuitAndStop("bad_headers") /\ UNCHANGED <<data, lab_numbers, idx, parsed>>
       ELSE IF RowTooShort(results)
       THEN /\ pcB' = "outer_except"
            /\ UNCHANGED <<session, quits, exit_kind, data, lab_numbers, idx, parsed>>
       ELSE /\ data' = ListingRows(results)
            /\ lab_numbers' = [r \in 1..Len(ListingRows(results)) |-> ListingRows(results)[r].Lab]
            /\ parsed' = [r \in 1..Len(ListingRows(results)) |-> NoPage]
            /\ idx' = 1
            /\ pcB' = "loop_head"
            /\ UNCHANGED <<session, quits, exit_kind>>
    /\ UNCHANGED <<windows, focus, results, page_html, reads, opened, refreshes, failed>>
    /\ UNCHANGED <<varsA, varsR>>

\* Top of an iteration: for every report but the first the results page is
\* loaded again (lines 100-102).
BeginIteration ==
    /\ pcB = "loop_head"
    /\ idx <= Len(lab_numbers)
    /\ pcB' = "find"
    /\ UNCHANGED <<session, quits, exit_kind, windows, focus, results, data, lab_numbers,
                   idx, page_html, reads, opened, refreshes, parsed, failed>>
    /\ UNCHANGED <<varsA, varsR>>

Goto(from, to) ==
    /\ pcB = from
    /\ pcB' = to
    /\ UNCHANGED <<session, quits, exit_kind, results, data, lab_numbers, idx, parsed, failed>>
    /\ UNCHANGED <<varsA, varsR>>

\* find_element(By.LINK_TEXT, lab_num) and get_attribute("href"), lines
\* 104-105 and 117-118.
FindLink == Goto("find", "open") /\ UNCHANGED <<windows, focus, page_html, reads, opened, refreshes>>

FindLinkAgain ==
    Goto("t_find", "t_open") /\ UNCHANGED <<windows, focus, page_html, reads, opened, refreshes>>

\* window.open(href): a report tab is added (lines 106, 119); the handles
\* "tab1" and "tab2" tell the first tab of an iteration from the re-opened.
OpenTab ==
    /\ Goto("open", "switch")
    /\ windows' = windows \cup {"tab1"}
    /\ opened' = Append(opened, lab_numbers[idx])
    /\ UNCHANGED <<focus, page_html, reads, refreshes>>

ReopenTab ==
    /\ Goto("t_open", "t_switch2")
    /\ windows' = windows \cup {"tab2"}
    /\ opened' = Append(opened, lab_numbers[idx])
    /\ UNCHANGED <<focus, page_html, reads, refreshes>>

\* switch_to.window(window_handles[-1]) (lines 107, 120).
SwitchToTab ==
    /\ Goto("switch", "read")
    /\ focus' = "tab1"
    /\ UNCHANGED <<windows, page_html, reads, opened, refreshes>>

SwitchToNewTab ==
    /\ Goto("t_switch2", "t_read")
    /\ focus' = "tab2"
    /\ UNCHANGED <<windows, page_html, reads, opened, refreshes>>

\* page_html = driver.page_source and the timeout test (lines 110-112).
ReadPage ==
    /\ pcB = "read"
    /\ \E page \in ReportPages :
          /\ page_html' = page
          /\ reads' = Append(reads, page)
          /\ pcB' = IF IsTimeoutPage(page.text) THEN "t_close" ELSE "parse"
    /\ UNCHANGED <<session, quits, exit_kind, windows, focus, results, data, lab_numbers,
                   idx, opened, refreshes, parsed, failed>>
    /\ UNCHANGED <<varsA, varsR>>

\* driver.close() of the timed-out tab (line 113).
CloseTimedOutTab ==
    /\ Goto("t_close", "t_switch")
    /\ windows' = windows \ {focus}
    /\ focus' = "closed"
    /\ UNCHANGED <<page_html, reads, opened, refreshes>>

\* switch_to.window(main_window) (line 114).
SwitchToMain ==
    /\ Goto("t_switch", "t_refresh")
    /\ focus' = "main"
    /\ UNCHANGED <<windows, page_html, reads, opened, refreshes>>

\* driver.refresh() and the wait (lines 115-116).
RefreshMain ==
    /\ Goto("t_refresh", "t_find")
    /\ refreshes' = refreshes + 1
    /\ UNCHANGED <<windows, focus, page_html, reads, opened>>

\* Faulty variant of ReadRetryPage: page_html keeps the first page.
ReadRetryPageStale ==
    /\ Goto("t_read", "parse")
    /\ \E page \in ReportPages : reads' = Append(reads, page)
    /\ UNCHANGED <<windows, focus, page_html, opened, refreshes>>

\* page_html = driver.page_source of the re-opened tab (line 122); the
\* page is not tested for the timeout message again.
ReadRetryPage ==
    /\ Goto("t_read", "parse")
    /\ \E page \in ReportPages :
          /\ page_html' = page
          /\ reads' = Append(reads, page)
    /\ UNCHANGED <<windows, focus, opened, refreshes>>

\* Lines 124-143: crop and lime from the page text, written to data[idx].
ParseReport ==
    /\ pcB = "parse"
    /\ data' = [data EXCEPT ![idx].Crop = CropType(page_html.text),
                            ![idx].Lime = LimeValue(page_html.text)]
    /\ parsed' = [parsed EXCEPT ![idx] = page_html]
    /\ pcB' = "finally"
    /\ UNCHANGED <<session, quits, exit_kind, windows, focus, results, lab_numbers,
                   idx, page_html, reads, opened, refreshes, failed>>
    /\ UNCHANGED <<varsA, varsR>>

\* The positions of the try block at which a browser operation is pending.
TryOps ==
    {"find", "open", "switch", "read", "t_close", "t_switch", "t_refresh",
     "t_find", "t_open", "t_switch2", "t_read"}

\* A browser operation of the try block raises: the except of line 144 logs
\* a warning and control passes to the finally block.  The reload at the top
\* of an iteration raises only when there is one (idx > 0 in the source).
RaiseInTry ==
    /\ \/ pcB \in TryOps
       \/ pcB = "loop_head" /\ idx > 1 /\ idx <= Len(lab_numbers)
    /\ failed' = failed \cup {idx}
    /\ pcB' = "finally"
    /\ UNCHANGED <<session, quits, exit_kind, windows, focus, results, data, lab_numbers,
                   idx, page_html, reads, opened, refreshes, parsed>>
    /\ UNCHANGED <<varsA, varsR>>

\* The finally block (lines 146-150): with more than one window open,
\* driver.close() closes the window the driver is switched to; then
\* switch_to.window(main_window), which raises NoSuchWindowException when
\* the main window is gone, and that exception leaves the loop.
WindowsAfterClose == IF Cardinality(windows) > 1 THEN windows \ {focus} ELSE windows

Finally ==
    /\ pcB = "finally"
    /\ windows' = WindowsAfterClose
    /\ IF "main" \in WindowsAfterClose
       THEN /\ focus' = "main"
            /\ idx' = idx + 1
            /\ pcB' = "loop_head"
       ELSE /\ focus' = "closed"
            /\ pcB' = "outer_except"
            /\ UNCHANGED idx
    /\ page_html' = NoPage
    /\ reads' = <<>>
    /\ opened' = <<>>
    /\ refreshes' = 0
    /\ UNCHANGED <<session, quits, exit_kind, results, data, lab_numbers, parsed, failed>>
    /\ UNCHANGED <<varsA, varsR>>

\* After the loop (lines 152-158): the frame is built and the browser quit.
FinishRun ==
    /\ pcB = "loop_head"
    /\ idx > Len(lab_numbers)
    /\ session' = "quit"
    /\ quits' = quits + 1
    /\ exit_kind' = "done"
    /\ pcB' = "ended"
    /\ UNCHANGED <<windows, focus, results, data, lab_numbers, idx, page_html, reads,
                   opened, refreshes, parsed, failed>>
    /\ UNCHANGED <<varsA, varsR>>

\* The outer except (lines 159-161): driver.quit() and the error message.
OuterExcept ==
    /\ pcB = "outer_except"
    /\ session' = "quit"
    /\ quits' = quits + 1
    /\ exit_kind' = "error"
    /\ pcB' = "ended"
    /\ UNCHANGED <<windows, focus, results, data, lab_numbers, idx, page_html, reads,
                   opened, refreshes, parsed, failed>>
    /\ UNCHANGED <<varsA, varsR>>

NextB ==
    \/ StartScrapingB \/ LoadResults \/ ParseResults \/ BeginIteration
    \/ FindLink \/ OpenTab \/ SwitchToTab \/ ReadPage
    \/ CloseTimedOutTab \/ SwitchToMain \/ RefreshMain
    \/ FindLinkAgain \/ ReopenTab \/ SwitchToNewTab \/ ReadRetryPage
    \/ ParseReport \/ RaiseInTry \/ Finally \/ FinishRun \/ OuterExcept

\* The state of a fresh session: an empty frame, no run in progress, no
\* browser session.
Init ==
    /\ scraped_data = <<>>
    /\ report_links = <<>>
    /\ all_data = <<>>
    /\ temp_df = <<>>
    /\ i = 0
    /\ pcA = "idle"
    /\ rec_in = [page |-> PageError, id |-> NoId]
    /\ rec_out = [NoRecord EXCEPT !.kind = "pending"]
    /\ pcB = "idle"
    /\ session = "none"
    /\ quits = 0
    /\ exit_kind = ""
    /\ windows = {}
    /\ focus = "closed"
    /\ results = [labnum_text |-> FALSE, has_table |-> FALSE, headers |-> <<>>, rows |-> <<>>]
    /\ data = <<>>
    /\ lab_numbers = <<>>
    /\ idx = 0
    /\ page_html = NoPage
    /\ reads = <<>>
    /\ opened = <<>>
    /\ refreshes = 0
    /\ parsed = <<>>
    /\ failed = {}

\* clemson_report_automation.py, its scrape function alone, streamlit_app.py.
Spec == Init /\ [][NextA]_vars

SpecRecord == Init /\ [][NextR]_vars

SpecApp == Init /\ [][NextB]_vars

(***************************************************************************)
(* Properties of streamlit_app.py.                                         *)
(***************************************************************************)
\* C2: a failure in one sample's iteration is logged and does not abort the
\* run: the run ends normally with one output row per data row of the
\* results table, in order, each with its listing fields, and a failed
\* sample's row has empty Crop and Lime.
C2_FailureDoesNotAbort ==
    (pcB = "ended" /\ failed # {}) =>
        /\ exit_kind = "done"
        /\ Len(data) = Len(DataRows(results))
        /\ \A k \in 1..Len(data) :
              /\ data[k].Account = DataRows(results)[k][IndexOf(results.headers, "Name")]
              /\ data[k].SampleNo = DataRows(results)[k][IndexOf(results.headers, "Sample No")]
              /\ data[k].Lab = DataRows(results)[k][IndexOf(results.headers, "LabNum")]
              /\ data[k].Date = DataRows(results)[k][IndexOf(results.headers, "Date Sampled")]
              /\ data[k].SoilpH = DataRows(results)[k][IndexOf(results.headers, "Soil pH")]
              /\ data[k].BufferpH = DataRows(results)[k][IndexOf(results.headers, "Buffer pH")]
              /\ k \in failed => data[k].Crop = "" /\ data[k].Lime = <<>>

C5_LimeAsPrinted ==
    /\ \A k \in 1..Len(data) :
          parsed[k] # NoPage =>
              data[k].Lime = IF parsed[k].lime = NoAmount THEN Chars_None
                             ELSE parsed[k].lime
    /\ (pcB = "finally" /\ idx \notin failed) =>
          \A o \in 1..Len(opened) : opened[o] = data[idx].Lab

\* C7: the main results window stays open until the final quit, and after
\* every iteration it is the only window and has the focus.
C7_MainWindowKept ==
    /\ session = "open" => "main" \in windows
    /\ (pcB = "loop_head" /\ session = "open") => windows = {"main"} /\ focus = "main"

\* C8: a report page showing the timeout message is retried exactly once:
\* its tab is closed, the main page refreshed once, the same lab number
\* opened again, and Crop and Lime are those of the page read second, also
\* when that page shows the timeout message again; a page that does not
\* show the message is not retried.
C8_RetryOnce ==
    /\ Len(reads) <= 2
    /\ Len(opened) <= 2
    /\ refreshes <= 1
    /\ (pcB = "finally" /\ idx \notin failed /\ Len(reads) >= 1) =>
          IF IsTimeoutPage(reads[1].text)
          THEN /\ Len(reads) = 2
               /\ opened = <<lab_numbers[idx], lab_numbers[idx]>>
               /\ refreshes = 1
               /\ windows = {"main", "tab2"}
               /\ focus = "tab2"
               /\ data[idx].Crop = CropType(reads[2].text)
               /\ data[idx].Lime = LimeValue(reads[2].text)
          ELSE /\ Len(reads) = 1
               /\ opened = <<lab_numbers[idx]>>
               /\ refreshes = 0

\* An iteration that met the timeout page, re-opened the report and
\* recorded the values of the second page.
C8_Witness ==
    /\ pcB = "finally"
    /\ idx \notin failed
    /\ Len(reads) = 2
    /\ IsTimeoutPage(reads[1].text)
    /\ reads[2].lime = <<"2", "5">>
    /\ data[idx].Lime = <<"2", "5">>
    /\ data[idx].Crop = "Warm-Season"

====
